---------------------------- MODULE Spec2Model ----------------------------
(***************************************************************************)
(* A model of skpro's DataManager (skpro/workflow/manager/data.py) and of  *)
(* the InverseGamma distribution grid (skpro/distributions/inversegamma.py)*)
(***************************************************************************)
EXTENDS Integers, Sequences, FiniteSets, TLC

VARIABLES objs, err, last, ops, grid, gerr, glast, result, calls

dmvars == <<objs, err, last, ops>>
gvars == <<grid, gerr, glast, result, calls>>
vars == <<objs, err, last, ops, grid, gerr, glast, result, calls>>

(***************************************************************************)
(* Bounds of the model.                                                    *)
(***************************************************************************)
\* longest array a caller assigns to X or y
MaxLen == 3
\* number of operations (assignments, shuffles, clones) after construction
MaxOps == 2
\* largest row and column counts of a parameter array or an explicit index
MaxRows == 3
MaxCols == 2

(***************************************************************************)
(* Python values.  A data attribute is None, the 0-d object array that     *)
(* np.copy(None) returns, a str, or an array of rows.                      *)
(***************************************************************************)
None == [kind |-> "none", rows |-> <<>>, s |-> ""]
Array0 == [kind |-> "array0", rows |-> <<>>, s |-> ""]
Arr(r) == [kind |-> "array", rows |-> r, s |-> ""]
Str(t) == [kind |-> "str", rows |-> <<>>, s |-> t]

IsNone(v) == v.kind = "none"
IsArr(v) == v.kind = "array"

\* split: a float (in tenths), or a value that is not a float
Float(t) == [kind |-> "float", tenths |-> t]
NotFloat(k) == [kind |-> k, tenths |-> 0]

Iota(n, b) == [i \in 1..n |-> b + i]

RowBases == {0}
LabelBases == {100}
XArrays == {Arr(Iota(n, b)) : n \in 0..MaxLen, b \in RowBases}
YArrays == {Arr(Iota(n, b)) : n \in 0..MaxLen, b \in LabelBases}
DatasetNames == {"boston", "Diabetes", "iris"}
\* 0.2 (the default), 0.5, 1.0 (a float train_test_split rejects) and an int
SplitValues == {Float(2), Float(5), Float(10), NotFloat("int")}
RandomStates == {"None", "7"}
NameValues == {None, Str("d")}

\* The permutations of 1..n a random draw is taken from: the rotations of 1..n
\* and their reversals, which for n <= 3 are all the permutations of 1..n.
Perms(n) ==
    IF n = 0 THEN {<<>>}
    ELSE {[i \in 1..n |-> ((k + d * i) % n) + 1] : k \in 0..(n - 1), d \in {1, -1}}
Permute(r, p) == [i \in 1..Len(p) |-> r[p[i]]]

(***************************************************************************)
(* sklearn.model_selection.train_test_split(X, y, test_size, random_state) *)
(* as DataManager._split calls it; p is the permutation the random state   *)
(* draws.  The result is <<X_train, X_test, y_train, y_test>>.             *)
(***************************************************************************)
Ceil10(k) == (k + 9) \div 10

train_test_split(X, y, test_size, p) ==
    LET n == Len(X)
        n_test == Ceil10(test_size * n)
        n_train == n - n_test
        test == SubSeq(p, 1, n_test)
        train == SubSeq(p, n_test + 1, n)
    IN  IF Len(y) # n \/ test_size <= 0 \/ test_size >= 10 \/ n_train = 0
        THEN [err |-> "ValueError", parts |-> <<>>]
        ELSE [err |-> "none",
              parts |-> <<Arr(Permute(X, train)), Arr(Permute(X, test)),
                          Arr(Permute(y, train)), Arr(Permute(y, test))>>]

(***************************************************************************)
(* DataManager._split: the three early returns, then the split.  len() of  *)
(* the 0-d array raises TypeError.                                         *)
(***************************************************************************)
\* the early returns without the comparison of the lengths
SplitGuardNoLen(m) ==
    IF m.split.kind # "float" THEN "return"
    ELSE IF IsNone(m._X) \/ IsNone(m._y) THEN "return"
    ELSE IF ~IsArr(m._X) \/ ~IsArr(m._y) THEN "TypeError"
    ELSE "split"

SplitGuard(m) ==
    IF m.split.kind # "float" THEN "return"
    ELSE IF IsNone(m._X) \/ IsNone(m._y) THEN "return"
    ELSE IF ~IsArr(m._X) \/ ~IsArr(m._y) THEN "TypeError"
    ELSE IF Len(m._X.rows) # Len(m._y.rows) THEN "return"
    ELSE "split"

_split(m, p) ==
    LET g == SplitGuard(m) IN
    IF g = "return" THEN [m |-> m, err |-> "none"]
    ELSE IF g = "TypeError" THEN [m |-> m, err |-> "TypeError"]
    ELSE LET r == train_test_split(m._X.rows, m._y.rows, m.split.tenths, p)
         IN  IF r.err # "none" THEN [m |-> m, err |-> r.err]
             ELSE [m |-> [m EXCEPT !.X_train = r.parts[1], !.X_test = r.parts[2],
                                    !.y_train = r.parts[3], !.y_test = r.parts[4]],
                   err |-> "none"]

\* the permutations train_test_split may draw when _split runs on m: one of
\* the rows when the split is carried out, and no draw otherwise
SplitPerms(m) == IF SplitGuard(m) = "split" THEN Perms(Len(m._X.rows)) ELSE {<<>>}

\* the X and y property setters
SetX(m, value, p) == _split([m EXCEPT !._X = value], p)
SetY(m, value, p) == _split([m EXCEPT !._y = value], p)

(***************************************************************************)
(* DataManager.__init__.  A str X autoloads an sklearn dataset; the loaded *)
(* arrays are abstracted to MaxLen rows.  The result is the new object, or *)
(* the error the constructor raises (and then no object).                  *)
(***************************************************************************)
Lower(s) == CASE s = "Boston" -> "boston" [] s = "Diabetes" -> "diabetes" [] OTHER -> s

load_dataset(d) ==
    IF d = "boston" THEN <<Arr(Iota(MaxLen, 40)), Arr(Iota(MaxLen, 140))>>
    ELSE <<Arr(Iota(MaxLen, 60)), Arr(Iota(MaxLen, 160))>>

Fresh(split, random_state) ==
    [_X |-> None, _y |-> None, split |-> split, name |-> "",
     random_state |-> random_state,
     X_train |-> None, X_test |-> None, y_train |-> None, y_test |-> None]

DataManager(X, y, split, name, random_state, p) ==
    LET auto == X.kind = "str"
        valid == Lower(X.s) \in {"boston", "diabetes"}
        X1 == IF auto /\ valid THEN load_dataset(Lower(X.s))[1] ELSE X
        y1 == IF auto /\ valid THEN load_dataset(Lower(X.s))[2] ELSE y
        name1 == IF auto THEN X ELSE name
        rx == SetX(Fresh(split, random_state), X1, p)
        ry == SetY(rx.m, y1, p)
    IN  IF auto /\ ~valid THEN [err |-> "ValueError", m |-> Fresh(split, random_state)]
        ELSE IF rx.err # "none" THEN rx
        ELSE IF ry.err # "none" THEN ry
        ELSE [err |-> "none",
              m |-> [ry.m EXCEPT !.name = IF name1.kind = "str" THEN name1.s
                                          ELSE "Unnamed"]]

(***************************************************************************)
(* DataManager.data and DataManager.clone.  np.copy(None) is a 0-d object  *)
(* array, not None.                                                        *)
(***************************************************************************)
np_copy(v) == IF IsNone(v) THEN Array0 ELSE v

data(m, copy) == IF ~copy THEN <<m._X, m._y>> ELSE <<np_copy(m._X), np_copy(m._y)>>

clone(m, p) ==
    DataManager(data(m, TRUE)[1], data(m, TRUE)[2], m.split, Str(m.name), "None", p)

(***************************************************************************)
(* DataManager.shuffle.  q is the permutation np.random.shuffle draws for  *)
(* the zipped pairs; zip stops at the shorter of X and y.                  *)
(***************************************************************************)
Min(a, b) == IF a < b THEN a ELSE b

Shuffled(X, y, q) ==
    <<Arr(Permute(X, q)), Arr(Permute(y, q))>>

shuffle(m, random_state, q, p) ==
    LET m1 == IF random_state # "None" THEN [m EXCEPT !.random_state = random_state]
              ELSE m
        Xc == np_copy(m1._X)
        yc == np_copy(m1._y)
    IN  IF ~IsArr(Xc) \/ ~IsArr(yc) THEN [m |-> m1, err |-> "TypeError"]
        ELSE IF Min(Len(Xc.rows), Len(yc.rows)) = 0 THEN [m |-> m1, err |-> "ValueError"]
        ELSE LET s == Shuffled(Xc.rows, yc.rows, q)
                 rx == SetX(m1, s[1], p)
             IN  IF rx.err # "none" THEN rx ELSE SetY(rx.m, s[2], p)

ShufflePerms(m) ==
    IF IsArr(m._X) /\ IsArr(m._y)
    THEN Perms(Min(Len(m._X.rows), Len(m._y.rows))) ELSE {<<>>}

(***************************************************************************)
(* The state machine: objs maps each live object to its fields, err is the *)
(* exception the last operation raised, last names that operation.         *)
(***************************************************************************)
Ids == {1, 2}
Other(id) == 3 - id

Init ==
    /\ grid = <<>>
    /\ gerr = "none"
    /\ glast = [op |-> "init", stat |-> "", args |-> <<>>]
    /\ result = <<>>
    /\ calls = 0
    /\ objs = <<>>
    /\ err = "none"
    /\ last = [op |-> "init", id |-> 0]
    /\ ops = 0

Construct ==
    /\ DOMAIN objs = {}
    /\ \E X \in XArrays \cup {None} \cup {Str(d) : d \in DatasetNames},
          y \in YArrays \cup {None}, split \in SplitValues,
          name \in NameValues, random_state \in RandomStates :
         \E p \in Perms(IF X.kind = "str" THEN MaxLen
                        ELSE IF IsArr(y) THEN Len(y.rows) ELSE 0) :
           LET r == DataManager(X, y, split, name, random_state, p) IN
           /\ objs' = IF r.err = "none" THEN (1 :> r.m) ELSE objs
           /\ err' = r.err
    /\ last' = [op |-> "construct", id |-> 1]
    /\ ops' = 0
    /\ UNCHANGED gvars

AssignX ==
    /\ ops < MaxOps
    /\ \E id \in DOMAIN objs, value \in XArrays \cup {None} :
         \E p \in SplitPerms([objs[id] EXCEPT !._X = value]) :
           LET r == SetX(objs[id], value, p) IN
           /\ objs' = [objs EXCEPT ![id] = r.m]
           /\ err' = r.err
           /\ last' = [op |-> "setX", id |-> id]
    /\ ops' = ops + 1
    /\ UNCHANGED gvars

AssignY ==
    /\ ops < MaxOps
    /\ \E id \in DOMAIN objs, value \in YArrays \cup {None} :
         \E p \in SplitPerms([objs[id] EXCEPT !._y = value]) :
           LET r == SetY(objs[id], value, p) IN
           /\ objs' = [objs EXCEPT ![id] = r.m]
           /\ err' = r.err
           /\ last' = [op |-> "setY", id |-> id]
    /\ ops' = ops + 1
    /\ UNCHANGED gvars

Shuffle ==
    /\ ops < MaxOps
    /\ \E id \in DOMAIN objs, random_state \in RandomStates :
         \E q \in ShufflePerms(objs[id]) :
         \E p \in IF objs[id].split.kind = "float" THEN Perms(Len(q)) ELSE {<<>>} :
           LET r == shuffle(objs[id], random_state, q, p) IN
           /\ objs' = [objs EXCEPT ![id] = r.m]
           /\ err' = r.err
           /\ last' = [op |-> "shuffle", id |-> id]
    /\ ops' = ops + 1
    /\ UNCHANGED gvars

Clone ==
    /\ ops < MaxOps
    /\ \E id \in DOMAIN objs :
         /\ Other(id) \notin DOMAIN objs
         /\ \E p \in SplitPerms(objs[id]) :
              LET r == clone(objs[id], p) IN
              /\ objs' = IF r.err = "none" THEN (id :> objs[id]) @@ (Other(id) :> r.m)
                         ELSE objs
              /\ err' = r.err
         /\ last' = [op |-> "clone", id |-> id]
    /\ ops' = ops + 1
    /\ UNCHANGED gvars

DMNext == Construct \/ AssignX \/ AssignY \/ Shuffle

SpecDM == Init /\ [][DMNext]_vars

\* the same operations with clone
CloneNext == DMNext \/ Clone

SpecClone == Init /\ [][CloneNext]_vars

(***************************************************************************)
(* Properties of the DataManager.                                          *)
(***************************************************************************)
\* the bag of (a[i], b[i]) pairs of two arrays, up to the shorter one
PairBag(a, b) ==
    LET n == Min(Len(a), Len(b))
        prs == {<<a[i], b[i]>> : i \in 1..n}
    IN  [pr \in prs |-> Cardinality({i \in 1..n : <<a[i], b[i]>> = pr})]

HeldParts(m) ==
    ~IsNone(m.X_train) \/ ~IsNone(m.X_test) \/ ~IsNone(m.y_train) \/ ~IsNone(m.y_test)

\* the four partitions are a train/test split of m's X and y: train and test
\* together hold every (row, label) pair of (X, y) exactly once, row i of a
\* partition with label i of the same partition
PairedSplit(m) ==
    /\ IsArr(m._X) /\ IsArr(m._y)
    /\ IsArr(m.X_train) /\ IsArr(m.X_test) /\ IsArr(m.y_train) /\ IsArr(m.y_test)
    /\ Len(m._X.rows) = Len(m._y.rows)
    /\ Len(m.X_train.rows) = Len(m.y_train.rows)
    /\ Len(m.X_test.rows) = Len(m.y_test.rows)
    /\ Len(m.X_train.rows) + Len(m.X_test.rows) = Len(m._X.rows)
    /\ PairBag(m.X_train.rows \o m.X_test.rows, m.y_train.rows \o m.y_test.rows)
         = PairBag(m._X.rows, m._y.rows)

\* C6: the split is carried out whenever new data is assigned, so after every
\* assignment to X or y (by the constructor, a setter or shuffle) the partitions
\* a manager holds are a train/test split of its current X and y and never
\* describe data that is no longer held.
C6_PartitionsDescribeCurrentData ==
    \A id \in DOMAIN objs : HeldParts(objs[id]) => PairedSplit(objs[id])

\* C7: clone() returns a copy of the data manager: the new manager's X, y,
\* split, name and random_state equal the original's.
C7_CloneIsCopy ==
    (last.op = "clone" /\ err = "none") =>
        LET o == objs[last.id]
            c == objs[Other(last.id)]
        IN  /\ c._X = o._X /\ c._y = o._y
            /\ c.split = o.split
            /\ c.name = o.name
            /\ c.random_state = o.random_state

\* C8: shuffle() on a manager holding X and y of equal length applies one
\* permutation to X and y: afterwards X and y have the lengths and the bag of
\* (X[i], y[i]) pairs they had before, so every row stays with its own label.
C8_ShuffleKeepsPairs ==
    [][last'.op = "shuffle" =>
        LET o == objs[last'.id]
            n == objs'[last'.id]
        IN  (IsArr(o._X) /\ IsArr(o._y) /\ Len(o._X.rows) = Len(o._y.rows)) =>
              /\ IsArr(n._X) /\ IsArr(n._y)
              /\ Len(n._X.rows) = Len(o._X.rows)
              /\ Len(n._y.rows) = Len(o._y.rows)
              /\ PairBag(n._X.rows, n._y.rows) = PairBag(o._X.rows, o._y.rows)
      ]_dmvars

\* _split returns early on m: split is not a float, or X or y is None, or the
\* lengths of X and y differ
EarlyReturn(m) ==
    \/ m.split.kind # "float"
    \/ IsNone(m._X) \/ IsNone(m._y)
    \/ (IsArr(m._X) /\ IsArr(m._y) /\ Len(m._X.rows) # Len(m._y.rows))

Scalar(x) == [nd |-> 0, m |-> <<<<x>>>>]
Vec(v) == [nd |-> 1, m |-> <<v>>]
Mat(m) == [nd |-> 2, m |-> m]

NoIndex == [given |-> FALSE, labels |-> <<>>]
Index(l) == [given |-> TRUE, labels |-> l]

Shape(raw) ==
    IF raw.nd = 0 THEN <<>>
    ELSE IF raw.nd = 1 THEN <<Len(raw.m[1])>>
    ELSE <<Len(raw.m), Len(raw.m[1])>>

\* a dimension that is absent is implied as 1
Pad2(sh) ==
    IF Len(sh) = 0 THEN <<1, 1>> ELSE IF Len(sh) = 1 THEN <<1, sh[1]>> ELSE sh

\* two-operand broadcasting of one dimension; 0 stands for a conflict
BroadcastDim(a, b) ==
    IF a = b THEN a ELSE IF a = 1 THEN b ELSE IF b = 1 THEN a ELSE 0

\* an explicit index of length n against broadcast dimension d
IndexDim(d, idx) ==
    IF ~idx.given THEN d
    ELSE IF d = Len(idx.labels) THEN d
    ELSE IF d = 1 THEN Len(idx.labels)
    ELSE 0

Digits == <<"0", "1", "2", "3", "4", "5", "6", "7", "8", "9">>
RangeIndex(n) == [i \in 1..n |-> Digits[i]]

Tensor(raw, r, c) ==
    [i \in 1..r |-> [j \in 1..c |->
        raw.m[IF Len(raw.m) = 1 THEN 1 ELSE i][IF Len(raw.m[1]) = 1 THEN 1 ELSE j]]]

\* ParameterBroadcaster.broadcast for the two parameters of the family
broadcast(raw_params, row_index, col_index) ==
    LET sa == Pad2(Shape(raw_params.alpha))
        sb == Pad2(Shape(raw_params.beta))
        r == IndexDim(BroadcastDim(sa[1], sb[1]), row_index)
        c == IndexDim(BroadcastDim(sa[2], sb[2]), col_index)
    IN  IF BroadcastDim(sa[1], sb[1]) = 0 \/ BroadcastDim(sa[2], sb[2]) = 0
           \/ r = 0 \/ c = 0
        THEN [err |-> "ShapeError", bc |-> <<>>, index |-> <<>>, columns |-> <<>>]
        ELSE [err |-> "none",
              bc |-> [alpha |-> Tensor(raw_params.alpha, r, c),
                      beta |-> Tensor(raw_params.beta, r, c)],
              index |-> IF row_index.given THEN row_index.labels ELSE RangeIndex(r),
              columns |-> IF col_index.given THEN col_index.labels ELSE RangeIndex(c)]

\* the family adapter's domain validation: shape and scale are positive
DomainOk(bc) ==
    \A i \in 1..Len(bc.alpha) : \A j \in 1..Len(bc.alpha[i]) :
        bc.alpha[i][j] > 0 /\ bc.beta[i][j] > 0

\* InverseGamma._tags
\* a tag table that lists mean as exact and as approximate
_tagsMeanInBoth ==
    ("capabilities:approx" :> <<"energy", "pdfnorm", "mean">>) @@
    ("capabilities:exact" :> <<"mean", "var", "pdf", "log_pdf", "cdf", "ppf">>) @@
    ("distr:measuretype" :> <<"continuous">>) @@
    ("distr:paramtype" :> <<"parametric">>) @@
    ("broadcast_init" :> <<"on">>)

_tags ==
    ("capabilities:approx" :> <<"energy", "pdfnorm">>) @@
    ("capabilities:exact" :> <<"mean", "var", "pdf", "log_pdf", "cdf", "ppf">>) @@
    ("distr:measuretype" :> <<"continuous">>) @@
    ("distr:paramtype" :> <<"parametric">>) @@
    ("broadcast_init" :> <<"on">>)

Range(sq) == {sq[i] : i \in 1..Len(sq)}

\* the base class constructor the family's __init__ calls: broadcast the
\* parameters the object holds, then validate their domain
BaseInit(self, index, columns) ==
    LET b == broadcast([alpha |-> self.alpha, beta |-> self.beta], index, columns) IN
    IF b.err # "none" THEN [err |-> b.err, obj |-> self]
    ELSE IF ~DomainOk(b.bc) THEN [err |-> "DomainError", obj |-> self]
    ELSE [err |-> "none",
          obj |-> [self EXCEPT !._bc_params = b.bc, !.index = b.index,
                                !.columns = b.columns]]

NewObject == [alpha |-> Scalar(0), beta |-> Scalar(0),
              _bc_params |-> [alpha |-> <<>>, beta |-> <<>>],
              index |-> <<>>, columns |-> <<>>]

\* InverseGamma.__init__, and two variants of it: one that passes index and
\* columns on in the wrong order, one that does not pass them on
InitSwapsIndex(alpha, beta, index, columns) ==
    BaseInit([NewObject EXCEPT !.alpha = alpha, !.beta = beta], columns, index)

InitDropsIndex(alpha, beta, index, columns) ==
    BaseInit([NewObject EXCEPT !.alpha = alpha, !.beta = beta], NoIndex, NoIndex)

InverseGamma(alpha, beta, index, columns) ==
    BaseInit([NewObject EXCEPT !.alpha = alpha, !.beta = beta], index, columns)

\* InverseGamma._get_scipy_param: the keyword arguments of scipy's invgamma;
\* and two variants of it: one that takes a from beta and scale from alpha, one
\* that reads the parameters as given instead of the broadcast ones
ScipyParamSwapped(self) ==
    [a |-> self._bc_params["beta"], scale |-> self._bc_params["alpha"]]

ScipyParamRaw(self) ==
    [a |-> self.alpha.m, scale |-> self.beta.m]

_get_scipy_param(self) ==
    LET alpha == self._bc_params["alpha"]
        beta == self._bc_params["beta"]
        scale == beta
    IN  [a |-> alpha, scale |-> scale]

\* InverseGamma.get_test_params
RowLabels == <<"1", "2", "5", "8", "9">>
ColLabels == <<"a", "b", "c", "d">>

get_test_params ==
    <<[alpha |-> Vec(<<60, 25>>),
       beta |-> Mat(<<<<10, 10>>, <<20, 30>>, <<40, 50>>>>),
       index |-> NoIndex, columns |-> NoIndex],
      [alpha |-> Scalar(20), beta |-> Scalar(30),
       index |-> Index(<<"1", "2", "5">>), columns |-> Index(<<"a", "b">>)],
      [alpha |-> Scalar(15), beta |-> Scalar(21),
       index |-> NoIndex, columns |-> NoIndex]>>

(***************************************************************************)
(* CapabilityRegistry and StatisticsEngine.  The backend is evaluated over *)
(* the keyword arrays elementwise; a cell of the result is the backend     *)
(* call that computes it.                                                  *)
(***************************************************************************)
capability_of(statistic_name) ==
    IF statistic_name \in Range(_tags["capabilities:exact"]) THEN "exact"
    ELSE IF statistic_name \in Range(_tags["capabilities:approx"]) THEN "approximate"
    ELSE "none"

Max(a, b) == IF a > b THEN a ELSE b

evaluate(g, statistic_name, unconverged) ==
    LET tag == capability_of(statistic_name)
        kw == _get_scipy_param(g)
        r == Max(Len(kw.a), Len(kw.scale))
        c == Max(Len(kw.a[1]), Len(kw.scale[1]))
        cell(m, i, j) == m[IF Len(m) = 1 THEN 1 ELSE i][IF Len(m[1]) = 1 THEN 1 ELSE j]
    IN  IF tag = "none"
        THEN [err |-> "UnsupportedStatisticError", calls |-> 0, result |-> <<>>]
        ELSE [err |-> "none", calls |-> r * c,
              result |-> <<[values |-> [i \in 1..r |-> [j \in 1..c |->
                                [stat |-> statistic_name, a |-> cell(kw.a, i, j),
                                 scale |-> cell(kw.scale, i, j)]]],
                            index |-> g.index, columns |-> g.columns,
                            warnings |-> IF tag = "approximate"
                                         THEN unconverged \cap ((1..r) \X (1..c))
                                         ELSE {}]>>]

(***************************************************************************)
(* The grid's state machine: grid holds the constructed object (at most    *)
(* one), result the grid the last query returned, calls the backend calls  *)
(* that query made, gerr the error of the last operation.                  *)
(***************************************************************************)
Gen1(n) == Vec([j \in 1..n |-> 10 * j])
Gen2(r, c) == Mat([i \in 1..r |-> [j \in 1..c |-> 100 * i + 10 * j]])

RawValues ==
    {Scalar(20), Scalar(0)}
    \cup {Gen1(n) : n \in 1..MaxRows}
    \cup {Gen2(r, c) : r \in 1..MaxRows, c \in 1..MaxCols}
    \cup {get_test_params[k].alpha : k \in 1..3}
    \cup {get_test_params[k].beta : k \in 1..3}

RowIndexes == {NoIndex} \cup {Index(SubSeq(RowLabels, 1, n)) : n \in 1..MaxRows}
ColIndexes == {NoIndex} \cup {Index(SubSeq(ColLabels, 1, n)) : n \in 1..MaxCols}

ConstructArgs ==
    [alpha : RawValues, beta : RawValues, index : RowIndexes, columns : ColIndexes]

StatNames == Range(_tags["capabilities:exact"]) \cup Range(_tags["capabilities:approx"])
             \cup {"median", "entropy"}

GConstruct ==
    /\ Len(grid) = 0
    /\ glast.op \in {"init", "release"}
    /\ \E args \in ConstructArgs :
         LET r == InverseGamma(args.alpha, args.beta, args.index, args.columns) IN
         /\ grid' = IF r.err = "none" THEN <<r.obj>> ELSE grid
         /\ gerr' = r.err
         /\ glast' = [op |-> "construct", stat |-> "", args |-> <<args>>]
    /\ result' = <<>>
    /\ calls' = 0
    /\ UNCHANGED dmvars

GQuery ==
    /\ Len(grid) = 1
    /\ \E statistic_name \in StatNames :
       \E unconverged \in IF capability_of(statistic_name) = "approximate"
                            THEN {{}} \cup {{<<i, j>>} : i \in 1..Len(grid[1].index),
                                                        j \in 1..Len(grid[1].columns)}
                            ELSE {{}} :
         LET r == evaluate(grid[1], statistic_name, unconverged) IN
         /\ result' = r.result
         /\ calls' = r.calls
         /\ gerr' = r.err
         /\ glast' = [op |-> "query", stat |-> statistic_name, args |-> <<>>]
    /\ UNCHANGED grid
    /\ UNCHANGED dmvars

\* the caller drops the object, or handles the error of a failed construction
GRelease ==
    /\ glast.op \in {"construct", "query"}
    /\ grid' = <<>>
    /\ result' = <<>>
    /\ calls' = 0
    /\ gerr' = "none"
    /\ glast' = [op |-> "release", stat |-> "", args |-> <<>>]
    /\ UNCHANGED dmvars

GNext == GConstruct \/ GQuery \/ GRelease

SpecGrid == Init /\ [][GNext]_vars

(***************************************************************************)
(* Properties of the distribution grid.                                    *)
(***************************************************************************)
\* every row of tensor t has c entries and there are r rows
HasShape(t, r, c) == Len(t) = r /\ \A i \in 1..Len(t) : Len(t[i]) = c

Constructed == glast.op = "construct" /\ gerr = "none" /\ Len(grid) = 1

\* C1: a valid construction gives a grid whose shape is (len(index),
\* len(columns)); a dimension with an explicit index has that index's length
\* and any other has the larger of the two parameters' sizes in that dimension
\* (the mutual broadcast shape); two scalars without indices give 1 x 1, two
\* scalars with a 3-label index and 2-label columns give 3 x 2, a scalar
\* against an n x m array gives n x m; every parameter tensor has that shape.
C1_GridShape ==
    Constructed =>
        LET a == glast.args[1]
            g == grid[1]
            sa == Pad2(Shape(a.alpha))
            sb == Pad2(Shape(a.beta))
            r == Len(g.index)
            c == Len(g.columns)
        IN  /\ HasShape(g._bc_params.alpha, r, c)
            /\ HasShape(g._bc_params.beta, r, c)
            /\ r = IF a.index.given THEN Len(a.index.labels) ELSE Max(sa[1], sb[1])
            /\ c = IF a.columns.given THEN Len(a.columns.labels) ELSE Max(sa[2], sb[2])
            /\ (a.alpha.nd = 0 /\ a.beta.nd = 0 /\ ~a.index.given /\ ~a.columns.given)
                 => (r = 1 /\ c = 1)
            /\ (a.alpha.nd = 0 /\ a.beta.nd = 0 /\ a.index.given /\ a.columns.given
                  /\ Len(a.index.labels) = 3 /\ Len(a.columns.labels) = 2)
                 => (r = 3 /\ c = 2)
            /\ (a.alpha.nd = 0 /\ a.beta.nd = 2 /\ ~a.index.given /\ ~a.columns.given)
                 => (r = Len(a.beta.m) /\ c = Len(a.beta.m[1]))

\* the second test fixture was constructed: two scalars expanded to 3 x 2
C1_Witness ==
    /\ Constructed
    /\ glast.args[1] = get_test_params[2]
    /\ HasShape(grid[1]._bc_params.alpha, 3, 2)

FromFixture1 == glast.op = "construct" /\ glast.args[1] = get_test_params[1]

\* C2 as written: the first test fixture yields a 3 x 2 grid in which row 0
\* uses alpha = 6 in both columns and the cell at row 1, column 1 uses
\* alpha = 2.5 with beta = 3.
C2_Row0AlphaSixInBothColumns ==
    FromFixture1 =>
        /\ Constructed
        /\ LET kw == _get_scipy_param(grid[1]) IN
           /\ HasShape(kw.a, 3, 2) /\ HasShape(kw.scale, 3, 2)
           /\ kw.a[1][1] = 60 /\ kw.a[1][2] = 60
           /\ kw.a[2][2] = 25 /\ kw.scale[2][2] = 30

\* C2 as amended: the first test fixture yields a 3 x 2 grid in which every
\* row uses alpha = 6 in column 0 and alpha = 2.5 in column 1 (alpha is
\* broadcast along the rows) and cell (i, j) uses beta[i][j]; the cell at row 1,
\* column 1 uses alpha = 2.5 with beta = 3.
C2_FixtureCells ==
    FromFixture1 =>
        /\ Constructed
        /\ LET kw == _get_scipy_param(grid[1]) IN
           /\ HasShape(kw.a, 3, 2) /\ HasShape(kw.scale, 3, 2)
           /\ \A i \in 1..3 : kw.a[i] = <<60, 25>>
           /\ kw.scale = <<<<10, 10>>, <<20, 30>>, <<40, 50>>>>
           /\ kw.a[2][2] = 25 /\ kw.scale[2][2] = 30

C2_Witness ==
    /\ FromFixture1 /\ Constructed
    /\ grid[1]._bc_params.alpha[1][2] = 25

\* the parameter shapes conflict in a dimension
Incompatible(a) ==
    LET sa == Pad2(Shape(a.alpha))
        sb == Pad2(Shape(a.beta))
    IN  \E d \in 1..2 : sa[d] # sb[d] /\ sa[d] # 1 /\ sb[d] # 1

\* an explicit index differs from a broadcast dimension that is not 1
IndexMismatch(a) ==
    LET sa == Pad2(Shape(a.alpha))
        sb == Pad2(Shape(a.beta))
    IN  \/ a.index.given /\ Max(sa[1], sb[1]) \notin {1, Len(a.index.labels)}
        \/ a.columns.given /\ Max(sa[2], sb[2]) \notin {1, Len(a.columns.labels)}

\* C3: a construction whose parameter shapes are mutually incompatible, or
\* whose explicit index or columns length differs from a broadcast dimension
\* that is not 1, fails with ShapeError; no grid exists afterwards and no
\* statistic can be queried.
C3_ShapeErrorNoGrid ==
    (glast.op = "construct" /\ (Incompatible(glast.args[1]) \/ IndexMismatch(glast.args[1])))
        => /\ gerr = "ShapeError"
           /\ Len(grid) = 0
           /\ Len(result) = 0
           /\ ~ENABLED GQuery

\* a construction with compatible parameters failed on its explicit index
C3_Witness ==
    /\ glast.op = "construct" /\ gerr = "ShapeError" /\ Len(grid) = 0
    /\ ~Incompatible(glast.args[1])
    /\ IndexMismatch(glast.args[1])

\* C4: mean, var, pdf, log_pdf, cdf and ppf are tagged exact, energy and pdfnorm
\* approximate, and no statistic is in both lists; a query for a statistic in
\* neither list fails with UnsupportedStatisticError with zero backend calls,
\* and a query for a tagged statistic calls the backend for the grid's cells.
C4_Capabilities ==
    /\ Range(_tags["capabilities:exact"]) = {"mean", "var", "pdf", "log_pdf", "cdf", "ppf"}
    /\ Range(_tags["capabilities:approx"]) = {"energy", "pdfnorm"}
    /\ Range(_tags["capabilities:exact"]) \cap Range(_tags["capabilities:approx"]) = {}
    /\ glast.op = "query" =>
         IF glast.stat \in Range(_tags["capabilities:exact"])
                             \cup Range(_tags["capabilities:approx"])
         THEN gerr = "none" /\ calls = Len(grid[1].index) * Len(grid[1].columns)
         ELSE gerr = "UnsupportedStatisticError" /\ calls = 0 /\ Len(result) = 0

\* an unsupported statistic was requested of a grid of several cells
C4_Witness ==
    /\ glast.op = "query" /\ glast.stat = "median"
    /\ gerr = "UnsupportedStatisticError"
    /\ Len(grid) = 1 /\ Len(grid[1].index) * Len(grid[1].columns) > 1

\* C5: a statistic query, exact or approximate, successful or failing, leaves
\* the grid's parameter tensors, row index and column index unchanged, and a
\* successful query returns a result grid with the shape, row index and column
\* index of the source grid.
C5_QueryLeavesGrid ==
    [][glast'.op = "query" =>
        /\ grid' = grid
        /\ gerr' = "none" =>
             /\ Len(result') = 1
             /\ HasShape(result'[1].values, Len(grid[1].index), Len(grid[1].columns))
             /\ result'[1].index = grid[1].index
             /\ result'[1].columns = grid[1].columns
      ]_gvars

\* a query returned a result for a grid that explicit indices expanded
C5_Witness ==
    /\ glast.op = "query" /\ gerr = "none" /\ Len(result) = 1 /\ Len(grid) = 1
    /\ grid[1].alpha.nd = 0 /\ grid[1].beta.nd = 0
    /\ HasShape(result[1].values, 3, 2)
    /\ result[1].index = <<"1", "2", "5">>

=============================================================================
